---------------------------- MODULE Spec2Model ----------------------------
(***************************************************************************)
(* Model of the MovingSale image resizer (src/unnamed/part_002): the       *)
(* entry points resizeImage, prepareImageForUpload, forceConvertToJpeg    *)
(* and processImageForMobile.                                              *)
(*                                                                         *)
(* Units.  Byte sizes are counted in MB (DEFAULT_CONFIG.maxSizeBytes =     *)
(* 8 MB is 8).  JPEG quality is counted in thousandths (0.92 is 920).      *)
(* Pixel dimensions are exact.  JavaScript numbers are modelled by exact   *)
(* rational arithmetic: Math.round(x) is floor(x + 1/2), Math.floor and    *)
(* Math.sqrt are exact; the quality reduction is truncated to a whole      *)
(* thousandth.                                                             *)
(***************************************************************************)
EXTENDS Integers, Sequences, FiniteSets, TLC

VARIABLES
    fn,          \* the exported function that was called
    file,        \* the source File: [src, size, width, height, n]
    config,      \* the caller's config object (Unset = key not supplied)
    settings,    \* { ...defaults, ...config } of the running function
    isIOS,       \* outcome of the platform test in getIOSSafeCanvasLimits
    pc,          \* position in the running function
    width,       \* let width
    height,      \* let height
    quality,     \* let quality
    blob,        \* let blob (NoBlob = null)
    attempts,    \* let attempts
    result,      \* the blob the function resolved with
    prepared,    \* the wrapper object of prepareImageForUpload
    error,       \* the error the promise rejected with ("none" = none)
    reads,       \* history: calls of readFileAsDataURL
    decodes,     \* history: calls of loadImage
    encodes,     \* history: calls of canvasToBlob
    prev,        \* history: parameters of the latest encode attempt
    floorSeen,   \* history: an attempt has used the floor quality
    failsInRow,  \* history: consecutive failed encodes just before now
    failures,    \* history: failed encodes of the invocation
    exitReason,  \* history: how the loop was left
    dimsIn,      \* calculateDimensions: the arguments of the call
    dimsOut,     \* calculateDimensions: the object returned (NoDims = none yet)
    userDocs,    \* Firestore: the documents users/{uid}
    granted,     \* history: the uids an administrator marked isAdmin in the console
    items,       \* Firestore: the documents items/{itemId}, with who wrote each
    requestDocs, \* Firestore: the documents of the requests collection
    lastOp,      \* history: the latest client operation and the rules' verdict
    adminCurrentUser,   \* admin.js: let currentUser
    adminCbs,           \* admin.js: the runs of the onAuthStateChanged callback
    adminMessageHidden, \* admin.js: adminMessage.hidden
    queries,            \* history: the getDocs queries the admin page has issued
    authUser,     \* Firebase auth: the signed-in user (auth.currentUser)
    authEvents,   \* history: the auth state changes so far
    pendingAuth,  \* the auth state changes not yet delivered to watchAuth
    currentUser,  \* main.js: let currentUser
    mainIsAdmin,  \* main.js: let isAdmin
    checks,       \* main.js: the checkIsAdmin calls of watchAuth still pending
    formBuilt,    \* main.js: the open modal holds a request form that can be submitted
    requests,     \* admin.js: let requests (the ids of the loaded documents)
    drawIn,        \* drawToCanvas: the arguments of the call
    drawPc,        \* drawToCanvas: position in the function
    currentWidth,  \* drawToCanvas: let currentWidth
    currentHeight, \* drawToCanvas: let currentHeight
    halvings,      \* history: step canvases created by the while loop
    drawn,         \* history: the canvases drawn at the target dimensions
    modalOpen,     \* admin.js: itemModal has the class "open"
    editingItem,   \* admin.js: let editingItem (NoItemId = null)
    session,       \* history: how many times openModal has run
    currentImages, \* admin.js: let currentImages
    imagesInput,   \* admin.js: imagesUrlInput.value, as the array it encodes
    tiles,         \* admin.js: the preview tiles of imagesPreviewGrid
    isUploading,   \* admin.js: let isUploading
    uploadingImageIndex, \* admin.js: let uploadingImageIndex
    dropzoneHidden,      \* admin.js: imageDropzone.hidden
    submitDisabled,      \* admin.js: modalSubmit.disabled
    closeTimer,    \* admin.js: setTimeout(closeModal, 800) is pending
    uploads,       \* the uploadToCloudinary calls in flight
    started,       \* history: uploads started so far
    clicks,        \* history: remove buttons clicked, and the URL of the last tile
    savedImages,   \* Firestore: the images array of each item document
    fullscreenViewerImages,       \* part_004: let fullscreenViewerImages
    fullscreenViewerCurrentIndex, \* part_004: let fullscreenViewerCurrentIndex
    viewerHidden,  \* part_004: fullscreenViewer.hidden
    navHidden,     \* part_004: fullscreenViewerPrev.hidden, fullscreenViewerNext.hidden
    prevDisabled,  \* part_004: fullscreenViewerPrev.disabled
    nextDisabled,  \* part_004: fullscreenViewerNext.disabled
    viewerMoves,   \* history: next / previous actions since the viewer opened
    viewerLast     \* history: the last of them, and the index it started from

ResizerVars == <<fn, file, config, settings, isIOS, pc, width, height, quality, blob,
          attempts, result, prepared, error, reads, decodes, encodes, prev,
          floorSeen, failsInRow, failures, exitReason>>

DimsVars == <<dimsIn, dimsOut>>

FirestoreVars == <<userDocs, granted, items, requestDocs, lastOp>>

AdminVars == <<adminCurrentUser, adminCbs, adminMessageHidden, queries>>

StoreVars == <<authUser, authEvents, pendingAuth, currentUser, mainIsAdmin,
               checks, formBuilt, requests>>

DrawVars == <<drawIn, drawPc, currentWidth, currentHeight, halvings, drawn>>

ModalVars == <<modalOpen, editingItem, session, currentImages, imagesInput, tiles,
               isUploading, uploadingImageIndex, dropzoneHidden, submitDisabled,
               closeTimer, uploads, started, clicks, savedImages>>

ViewerVars == <<fullscreenViewerImages, fullscreenViewerCurrentIndex, viewerHidden,
                navHidden, prevDisabled, nextDisabled, viewerMoves, viewerLast>>

MoreVars == <<DrawVars, ModalVars, ViewerVars>>

vars == <<ResizerVars, DimsVars, FirestoreVars, AdminVars, StoreVars, MoreVars>>

-----------------------------------------------------------------------------
(* Bounds of the model *)

\* size in MB of a source that is within every budget used
SmallSrcMB == 2
\* size in MB of a source that is over every budget used
LargeSrcMB == 10
\* the encoder reports budget, budget + 1 or OvershootFactor * budget
OvershootFactor == 3
\* the maxAttempts a caller puts in its config
CallerAttempts == 3

-----------------------------------------------------------------------------
(* Program constants *)

DefaultMaxSizeMB == 8
DefaultMaxWidth == 4096
DefaultMaxHeight == 4096
DefaultQuality == 920
MobileMaxSizeMB == 5
MobileQuality == 850
MobileMaxWidth == 3840
MobileMaxHeight == 3840

Unset == -1

ResizeFn == "resizeImage"
PrepareFn == "prepareImageForUpload"
ForceFn == "forceConvertToJpeg"
MobileFn == "processImageForMobile"
Fns == {ResizeFn, PrepareFn, ForceFn, MobileFn}

\* the entry points that run the loop of forceConvertToJpeg
Jpeg(f) == f \in {ForceFn, MobileFn}

DEFAULT_CONFIG ==
    [maxSizeBytes |-> DefaultMaxSizeMB, maxWidth |-> DefaultMaxWidth,
     maxHeight |-> DefaultMaxHeight, quality |-> DefaultQuality]

\* { ...base, ...over }: a key of over replaces the key of base
Merge(base, over) ==
    [k \in DOMAIN base \cup DOMAIN over |->
        IF k \in DOMAIN over /\ over[k] # Unset THEN over[k]
        ELSE IF k \in DOMAIN base THEN base[k] ELSE Unset]

\* processImageForMobile: the defaults it puts under the caller's config
MOBILE_CONFIG ==
    [maxSizeBytes |-> MobileMaxSizeMB, quality |-> MobileQuality,
     maxWidth |-> MobileMaxWidth, maxHeight |-> MobileMaxHeight]

\* the settings object each entry point builds from the caller's config
SettingsOf(f, cfg) ==
    IF f = MobileFn
    THEN Merge([DEFAULT_CONFIG EXCEPT !.maxSizeBytes = MobileMaxSizeMB],
               Merge(MOBILE_CONFIG, cfg))
    ELSE IF f = ForceFn
    THEN Merge([DEFAULT_CONFIG EXCEPT !.maxSizeBytes = MobileMaxSizeMB], cfg)
    ELSE Merge(DEFAULT_CONFIG, cfg)

\* variant: the iOS pixel limit written 2048 * 1024
getIOSSafeCanvasLimitsFewPixels(ios) ==
    IF ios
    THEN [maxWidth |-> 2048, maxHeight |-> 2048, maxPixels |-> 2048 * 1024]
    ELSE [maxWidth |-> 4096, maxHeight |-> 4096, maxPixels |-> 16 * 1024 * 1024]

\* variant: the platform test never recognises iOS
getIOSSafeCanvasLimitsDesktop(ios) ==
    [maxWidth |-> 4096, maxHeight |-> 4096, maxPixels |-> 16 * 1024 * 1024]

getIOSSafeCanvasLimits(ios) ==
    IF ios
    THEN [maxWidth |-> 2048, maxHeight |-> 2048, maxPixels |-> 4 * 1024 * 1024]
    ELSE [maxWidth |-> 4096, maxHeight |-> 4096, maxPixels |-> 16 * 1024 * 1024]

\* variant: the loop test written attempts <= maxAttempts
MaxAttemptsOffByOne(f) == IF Jpeg(f) THEN 16 ELSE 11

\* variant: the bound read from settings.maxAttempts when the caller gives one
MaxAttemptsFromConfig(f) ==
    IF settings.maxAttempts # Unset THEN settings.maxAttempts
    ELSE IF Jpeg(f) THEN 15 ELSE 10

\* const maxAttempts = 10 / 15
MaxAttempts(f) == IF Jpeg(f) THEN 15 ELSE 10

\* if (quality > 0.5) / if (quality > 0.35)
QualityFloor(f) == IF Jpeg(f) THEN 350 ELSE 500

\* if (width < 800 || height < 600) / if (width < 400 || height < 300)
MinWidth(f) == IF Jpeg(f) THEN 400 ELSE 800
MinHeight(f) == IF Jpeg(f) THEN 300 ELSE 600
\* variant: the guard written with && instead of ||
BelowMinimumBoth(f, w, h) == w < MinWidth(f) /\ h < MinHeight(f)

BelowMinimum(f, w, h) == w < MinWidth(f) \/ h < MinHeight(f)

-----------------------------------------------------------------------------
(* Arithmetic *)

Min(a, b) == IF a <= b THEN a ELSE b
Max(a, b) == IF a >= b THEN a ELSE b

\* Math.round(x * num / den) for x, num >= 0 and den > 0
RoundMulDiv(x, num, den) == (2 * x * num + den) \div (2 * den)

\* Math.floor(x * num / den), computed without a large intermediate product
FloorMulDiv(x, num, den) == (x \div den) * num + ((x % den) * num) \div den

RECURSIVE SqrtSearch(_, _, _)
SqrtSearch(n, lo, hi) ==
    IF lo >= hi THEN lo
    ELSE LET mid == (lo + hi + 1) \div 2
         IN IF mid * mid <= n THEN SqrtSearch(n, mid, hi)
                              ELSE SqrtSearch(n, lo, mid - 1)

\* Math.floor(Math.sqrt(n))
Isqrt(n) == SqrtSearch(n, 0, Min(n, 46340))

\* Math.round(d * Math.sqrt(num / den))
RoundSqrtScale(d, num, den) == (Isqrt(FloorMulDiv(4 * d * d, num, den)) + 1) \div 2


-----------------------------------------------------------------------------
(* The pure steps of the algorithm *)

\* variant: ratio = Math.max(widthRatio, heightRatio)
calculateDimensionsMaxRatio(w, h, maxW, maxH) ==
    IF w > maxW \/ h > maxH
    THEN IF maxW * h <= maxH * w
         THEN [width |-> RoundMulDiv(w, maxH, h), height |-> RoundMulDiv(h, maxH, h)]
         ELSE [width |-> RoundMulDiv(w, maxW, w), height |-> RoundMulDiv(h, maxW, w)]
    ELSE [width |-> w, height |-> h]

\* variant: Math.floor instead of Math.round
calculateDimensionsFloor(w, h, maxW, maxH) ==
    IF w > maxW \/ h > maxH
    THEN IF maxW * h <= maxH * w
         THEN [width |-> FloorMulDiv(w, maxW, w), height |-> FloorMulDiv(h, maxW, w)]
         ELSE [width |-> FloorMulDiv(w, maxH, h), height |-> FloorMulDiv(h, maxH, h)]
    ELSE [width |-> w, height |-> h]

\* calculateDimensions(width, height, maxWidth, maxHeight)
calculateDimensions(w, h, maxW, maxH) ==
    IF w > maxW \/ h > maxH
    THEN IF maxW * h <= maxH * w          \* widthRatio <= heightRatio
         THEN [width |-> RoundMulDiv(w, maxW, w), height |-> RoundMulDiv(h, maxW, w)]
         ELSE [width |-> RoundMulDiv(w, maxH, h), height |-> RoundMulDiv(h, maxH, h)]
    ELSE [width |-> w, height |-> h]

\* forceConvertToJpeg: the total-pixel check after calculateDimensions
\* (scale = sqrt(maxPixels / (w*h)), so w * scale = sqrt(w * maxPixels / h))
PixelClamp(d, maxPixels) ==
    IF d.width * d.height > maxPixels
    THEN [width |-> Isqrt(FloorMulDiv(maxPixels, d.width, d.height)),
          height |-> Isqrt(FloorMulDiv(maxPixels, d.height, d.width))]
    ELSE d

\* the dimensions of the first attempt
InitialDimensions(f, img, st, ios) ==
    IF Jpeg(f)
    THEN LET lim == getIOSSafeCanvasLimits(ios)
         IN PixelClamp(calculateDimensions(img.width, img.height,
                                           Min(st.maxWidth, lim.maxWidth),
                                           Min(st.maxHeight, lim.maxHeight)),
                       lim.maxPixels)
    ELSE calculateDimensions(img.width, img.height, st.maxWidth, st.maxHeight)

\* variant: the comparison written <
UnderLimitStrict(size, maxSizeBytes) == size < maxSizeBytes

\* if (file.size <= settings.maxSizeBytes) return file
UnderLimit(size, maxSizeBytes) == size <= maxSizeBytes

\* variant: the aggressiveness factor written 0.5
QualityReductionSteep(maxSize, size) == Max(100, (500 * (size - maxSize)) \div size)

\* qualityReduction = Math.max(0.1, (1 - sizeRatio) * 0.3), sizeRatio = max / size
QualityReduction(maxSize, size) == Max(100, (300 * (size - maxSize)) \div size)

\* variant: the reduction taken from the configured quality, not the current one
NextQualityFromConfig(f, q, maxSize, size) ==
    Max(QualityFloor(f), settings.quality - QualityReduction(maxSize, size))

\* variant: the reduced quality is not clamped to the floor
NextQualityUnclamped(f, q, maxSize, size) == q - QualityReduction(maxSize, size)

\* quality = Math.max(floor, quality - qualityReduction)
NextQuality(f, q, maxSize, size) ==
    Max(QualityFloor(f), q - QualityReduction(maxSize, size))

\* variant: sizeRatio computed as blob.size / maxSizeBytes
ScaledDimensionInverted(f, d, maxSize, size) ==
    IF Jpeg(f)
    THEN IF 80 * size >= 36 * maxSize
         THEN RoundSqrtScale(d, 8 * size, 10 * maxSize)
         ELSE RoundMulDiv(d, 6, 10)
    ELSE IF 90 * size >= 49 * maxSize
         THEN RoundSqrtScale(d, 9 * size, 10 * maxSize)
         ELSE RoundMulDiv(d, 7, 10)

\* variant: the scale is not held at the dimension floor
ScaledDimensionNoFloor(f, d, maxSize, size) ==
    IF Jpeg(f)
    THEN RoundSqrtScale(d, 8 * maxSize, 10 * size)
    ELSE RoundSqrtScale(d, 9 * maxSize, 10 * size)

\* Math.round(d * dimensionScale) with
\* dimensionScale = Math.max(0.7, Math.sqrt(sizeRatio * 0.9))   (resizeImage)
\* dimensionScale = Math.max(0.6, Math.sqrt(sizeRatio * 0.8))   (forceConvertToJpeg)
ScaledDimension(f, d, maxSize, size) ==
    IF Jpeg(f)
    THEN IF 80 * maxSize >= 36 * size
         THEN RoundSqrtScale(d, 8 * maxSize, 10 * size)
         ELSE RoundMulDiv(d, 6, 10)
    ELSE IF 90 * maxSize >= 49 * size
         THEN RoundSqrtScale(d, 9 * maxSize, 10 * size)
         ELSE RoundMulDiv(d, 7, 10)

\* variant: the retry halves the dimensions
RetryDimensionHalf(d) == RoundMulDiv(d, 5, 10)

\* catch (canvasError): Math.round(d * 0.7)
RetryDimension(d) == RoundMulDiv(d, 7, 10)

-----------------------------------------------------------------------------
(* Inputs *)

NoBlob == [src |-> FALSE, size |-> 0, width |-> 0, height |-> 0, n |-> 0]
NoPrepared == [originalSize |-> 0, finalSize |-> 0, wasResized |-> FALSE]
NoAttempt == [width |-> 0, height |-> 0, quality |-> 0]

\* pixel sizes of the sources
SrcDimensions == {<<6000, 4000>>, <<3000, 2000>>, <<1200, 900>>, <<700, 500>>}

Files ==
    {[src |-> TRUE, size |-> s, width |-> d[1], height |-> d[2], n |-> 0] :
        s \in {SmallSrcMB, DefaultMaxSizeMB, LargeSrcMB}, d \in SrcDimensions}

\* the caller's config; maxAttempts is a key the specification names, which
\* the object spread copies into settings like any other key
Configs ==
    {[maxSizeBytes |-> m, maxWidth |-> d[1], maxHeight |-> d[2], quality |-> q,
      maxAttempts |-> Unset] :
        m \in {Unset, 4}, d \in {<<Unset, Unset>>, <<1600, 1000>>},
        q \in {Unset, 400, 300}}
    \cup
    {[maxSizeBytes |-> m, maxWidth |-> Unset, maxHeight |-> Unset, quality |-> Unset,
      maxAttempts |-> CallerAttempts] : m \in {Unset, 4}}

\* variant: finalSize taken from the source file
WrappedSourceSize(f, src, b) ==
    IF f = PrepareFn
    THEN [originalSize |-> src.size, finalSize |-> src.size, wasResized |-> b # src]
    ELSE [originalSize |-> src.size, finalSize |-> src.size, wasProcessed |-> TRUE]

\* the object prepareImageForUpload / processImageForMobile returns around blob b
Wrapped(f, src, b) ==
    IF f = PrepareFn
    THEN [originalSize |-> src.size, finalSize |-> b.size, wasResized |-> b # src]
    ELSE [originalSize |-> src.size, finalSize |-> b.size, wasProcessed |-> TRUE]

\* what canvas.toBlob may report for a blob
EncodedSizes(maxSize) == {maxSize, maxSize + 1, OvershootFactor * maxSize}

Encoded(size) ==
    [src |-> FALSE, size |-> size, width |-> width, height |-> height, n |-> attempts + 1]

-----------------------------------------------------------------------------
(* Actions *)

\* no call of calculateDimensions on its own is under way
NoDims == [width |-> 0, height |-> 0]
NoDimsCall == [width |-> 0, height |-> 0, maxWidth |-> 0, maxHeight |-> 0]
DimsIdle == dimsIn = NoDimsCall /\ dimsOut = NoDims

\* request.auth == null, a null user
NoUser == "null"
Uids == {"alice", "bob"}
ItemIds == {"lamp", "sofa"}

\* a users/{uid} document: the isAdmin field holds the boolean true ("true"),
\* the boolean false ("false"), the string 'true' ("'true'") or is absent
IsAdminValues == {"true", "false", "'true'", "undefined"}
NoDoc == [exists |-> FALSE, isAdmin |-> "undefined"]
UserDocValues == [exists : {TRUE}, isAdmin : IsAdminValues]
NoItem == [exists |-> FALSE, writer |-> NoUser]
NoOp == [op |-> "none", auth |-> NoUser, allowed |-> FALSE]

\* the database as created: no user documents, no items, no requests
FirestoreEmpty ==
    /\ userDocs = [u \in Uids |-> NoDoc]
    /\ granted = {}
    /\ items = [i \in ItemIds |-> NoItem]
    /\ requestDocs = {}
    /\ lastOp = NoOp

\* the admin page is not open
AdminIdle ==
    /\ adminCurrentUser = NoUser /\ adminCbs = <<>>
    /\ adminMessageHidden = TRUE /\ queries = {}

\* the storefront as loaded: nobody signed in, no modal open
StoreIdle ==
    /\ authUser = NoUser /\ authEvents = 0 /\ pendingAuth = <<>>
    /\ currentUser = NoUser /\ mainIsAdmin = FALSE /\ checks = {}
    /\ formBuilt = FALSE /\ requests = {}

\* no call of drawToCanvas on its own is under way
NoDrawCall ==
    [imgWidth |-> 0, imgHeight |-> 0, targetWidth |-> 0, targetHeight |-> 0,
     useProgressiveResize |-> FALSE]
DrawIdle ==
    /\ drawIn = NoDrawCall /\ drawPc = "idle"
    /\ currentWidth = 0 /\ currentHeight = 0 /\ halvings = 0 /\ drawn = <<>>

\* editingItem = null
NoItemId == "null"
\* the slot of the document that addDoc creates
NewItemId == "new"
NoUrl == [n |-> 0, session |-> 0, item |-> NoItemId]
\* the images the item documents hold before the modal is first opened
StoredImages ==
    [i \in ItemIds \cup {NewItemId} |->
        IF i = "lamp" THEN [k \in 1..7 |-> [n |-> k, session |-> 0, item |-> i]]
        ELSE IF i = "sofa" THEN <<[n |-> 8, session |-> 0, item |-> i]>>
        ELSE <<>>]

\* the admin item modal is closed and nothing is uploading
ModalIdle ==
    /\ modalOpen = FALSE /\ editingItem = NoItemId /\ session = 0
    /\ currentImages = <<>> /\ imagesInput = <<>> /\ tiles = <<>>
    /\ isUploading = FALSE /\ uploadingImageIndex = -1
    /\ dropzoneHidden = FALSE /\ submitDisabled = FALSE /\ closeTimer = FALSE
    /\ uploads = {} /\ started = 0 /\ clicks = [n |-> 0, url |-> NoUrl]
    /\ savedImages = StoredImages

NoMove == [move |-> "none", from |-> 0]

\* the fullscreen viewer is closed
ViewerIdle ==
    /\ fullscreenViewerImages = <<>> /\ fullscreenViewerCurrentIndex = 0
    /\ viewerHidden = TRUE /\ navHidden = FALSE
    /\ prevDisabled = FALSE /\ nextDisabled = FALSE
    /\ viewerMoves = 0 /\ viewerLast = NoMove

MoreIdle == DrawIdle /\ ModalIdle /\ ViewerIdle

\* the state of everything but the resizer
Elsewhere == <<DimsVars, FirestoreVars, AdminVars, StoreVars, MoreVars>>
ElsewhereIdle == DimsIdle /\ FirestoreEmpty /\ AdminIdle /\ StoreIdle /\ MoreIdle

Init ==
    /\ ElsewhereIdle
    /\ fn \in Fns
    /\ file \in Files
    /\ config \in Configs
    /\ settings = SettingsOf(fn, config)
    /\ isIOS \in (IF Jpeg(fn) THEN BOOLEAN ELSE {FALSE})
    /\ pc = "call"
    /\ width = 0 /\ height = 0 /\ quality = 0
    /\ blob = NoBlob /\ attempts = 0
    /\ result = NoBlob /\ prepared = NoPrepared /\ error = "none"
    /\ reads = 0 /\ decodes = 0 /\ encodes = 0
    /\ prev = NoAttempt /\ floorSeen = FALSE /\ failsInRow = 0 /\ failures = 0
    /\ exitReason = "none"

History == <<reads, decodes, encodes, prev, floorSeen, failsInRow, failures, exitReason>>
Inputs == <<fn, file, config, settings, isIOS, Elsewhere>>
Locals == <<width, height, quality, blob, attempts>>

\* resizeImage / prepareImageForUpload: the file is already under the limit
FastPath ==
    /\ pc = "call" /\ ~Jpeg(fn)
    /\ UnderLimit(file.size, settings.maxSizeBytes)
    /\ pc' = "returned"
    /\ result' = file
    /\ prepared' = IF fn = PrepareFn THEN Wrapped(fn, file, file) ELSE prepared
    /\ UNCHANGED <<Inputs, Locals, error, History>>

\* the file has to be processed: go on to readFileAsDataURL
Process ==
    /\ pc = "call"
    /\ Jpeg(fn) \/ ~UnderLimit(file.size, settings.maxSizeBytes)
    /\ pc' = "read"
    /\ UNCHANGED <<Inputs, Locals, result, prepared, error, History>>

ReadOk ==
    /\ pc = "read"
    /\ pc' = "load"
    /\ reads' = reads + 1
    /\ UNCHANGED <<Inputs, Locals, result, prepared, error, decodes, encodes,
                   prev, floorSeen, failsInRow, failures, exitReason>>

ReadFail ==
    /\ pc = "read"
    /\ pc' = "thrown"
    /\ error' = "read"
    /\ reads' = reads + 1
    /\ UNCHANGED <<Inputs, Locals, result, prepared, decodes, encodes,
                   prev, floorSeen, failsInRow, failures, exitReason>>

\* loadImage resolves: initial dimensions, quality, blob = null, attempts = 0
LoadOk ==
    /\ pc = "load"
    /\ pc' = "loop"
    /\ decodes' = decodes + 1
    /\ LET d == InitialDimensions(fn, file, settings, isIOS)
       IN /\ width' = d.width
          /\ height' = d.height
    /\ quality' = settings.quality
    /\ blob' = NoBlob
    /\ attempts' = 0
    /\ UNCHANGED <<Inputs, result, prepared, error, reads, encodes,
                   prev, floorSeen, failsInRow, failures, exitReason>>

LoadFail ==
    /\ pc = "load"
    /\ pc' = "thrown"
    /\ error' = "load"
    /\ decodes' = decodes + 1
    /\ UNCHANGED <<Inputs, Locals, result, prepared, reads, encodes,
                   prev, floorSeen, failsInRow, failures, exitReason>>

\* what every iteration that reaches canvasToBlob records
Attempted ==
    /\ pc = "loop"
    /\ attempts < MaxAttempts(fn)
    /\ attempts' = attempts + 1
    /\ encodes' = encodes + 1
    /\ prev' = [width |-> width, height |-> height, quality |-> quality]
    /\ floorSeen' = (floorSeen \/ quality = QualityFloor(fn))

\* variant: the break on success is missing
EncodeWithinNoBreak ==
    /\ Attempted
    /\ \E s \in EncodedSizes(settings.maxSizeBytes) :
          /\ UnderLimit(s, settings.maxSizeBytes)
          /\ blob' = Encoded(s)
    /\ failsInRow' = 0
    /\ failures' = failures
    /\ UNCHANGED <<Inputs, pc, width, height, quality, result, prepared, error,
                   reads, decodes, exitReason>>

\* the blob is within the limit: break
EncodeWithin ==
    /\ Attempted
    /\ \E s \in EncodedSizes(settings.maxSizeBytes) :
          /\ UnderLimit(s, settings.maxSizeBytes)
          /\ blob' = Encoded(s)
    /\ pc' = "exit"
    /\ exitReason' = "within"
    /\ failsInRow' = 0
    /\ failures' = failures
    /\ UNCHANGED <<Inputs, width, height, quality, result, prepared, error,
                   reads, decodes>>

\* the blob is over the limit and quality is above the floor: reduce quality
ReduceQuality ==
    /\ Attempted
    /\ quality > QualityFloor(fn)
    /\ \E s \in EncodedSizes(settings.maxSizeBytes) :
          /\ ~UnderLimit(s, settings.maxSizeBytes)
          /\ blob' = Encoded(s)
          /\ quality' = NextQuality(fn, quality, settings.maxSizeBytes, s)
    /\ failsInRow' = 0
    /\ failures' = failures
    /\ UNCHANGED <<Inputs, pc, width, height, result, prepared, error,
                   reads, decodes, exitReason>>

\* the blob is over the limit and quality is at the floor: reduce dimensions,
\* and break when they fall below the minimum
ReduceDimensions ==
    /\ Attempted
    /\ ~(quality > QualityFloor(fn))
    /\ \E s \in EncodedSizes(settings.maxSizeBytes) :
          /\ ~UnderLimit(s, settings.maxSizeBytes)
          /\ blob' = Encoded(s)
          /\ width' = ScaledDimension(fn, width, settings.maxSizeBytes, s)
          /\ height' = ScaledDimension(fn, height, settings.maxSizeBytes, s)
    /\ IF BelowMinimum(fn, width', height')
       THEN pc' = "exit" /\ exitReason' = "minimum"
       ELSE pc' = pc /\ exitReason' = exitReason
    /\ failsInRow' = 0
    /\ failures' = failures
    /\ UNCHANGED <<Inputs, quality, result, prepared, error, reads, decodes>>

\* variant: resizeImage catches the failure and retries like forceConvertToJpeg
EncodeFailRetryAll ==
    /\ Attempted
    /\ failsInRow' = failsInRow + 1
    /\ failures' = failures + 1
    /\ width' = RetryDimension(width)
    /\ height' = RetryDimension(height)
    /\ IF BelowMinimum(fn, width', height')
       THEN pc' = "thrown" /\ error' = "canvas"
       ELSE pc' = pc /\ error' = error
    /\ UNCHANGED <<Inputs, quality, blob, result, prepared, reads, decodes,
                   exitReason>>

\* drawToCanvas or canvasToBlob throws.  resizeImage has no handler;
\* forceConvertToJpeg catches, shrinks to 70% and goes round the loop again
EncodeFail ==
    /\ Attempted
    /\ failsInRow' = failsInRow + 1
    /\ failures' = failures + 1
    /\ IF Jpeg(fn)
       THEN /\ width' = RetryDimension(width)
            /\ height' = RetryDimension(height)
            /\ IF BelowMinimum(fn, width', height')
               THEN pc' = "thrown" /\ error' = "canvas"
               ELSE pc' = pc /\ error' = error
       ELSE /\ pc' = "thrown" /\ error' = "encode"
            /\ UNCHANGED <<width, height>>
    /\ UNCHANGED <<Inputs, quality, blob, result, prepared, reads, decodes,
                   exitReason>>

\* while (attempts < maxAttempts) is false
Exhausted ==
    /\ pc = "loop"
    /\ ~(attempts < MaxAttempts(fn))
    /\ pc' = "exit"
    /\ exitReason' = "exhausted"
    /\ UNCHANGED <<Inputs, Locals, result, prepared, error, reads, decodes,
                   encodes, prev, floorSeen, failsInRow, failures>>

\* variant: a blob that is still over the limit is rejected instead of returned
ReturnStrict ==
    /\ pc = "exit"
    /\ IF blob = NoBlob \/ blob.size > settings.maxSizeBytes
       THEN pc' = "thrown" /\ error' = "noblob" /\ UNCHANGED <<result, prepared>>
       ELSE /\ pc' = "returned"
            /\ result' = blob
            /\ prepared' = IF fn \in {PrepareFn, MobileFn}
                           THEN Wrapped(fn, file, blob)
                           ELSE prepared
            /\ error' = error
    /\ UNCHANGED <<Inputs, Locals, History>>

\* after the loop: forceConvertToJpeg throws on a null blob, else return blob;
\* prepareImageForUpload and processImageForMobile wrap the blob
Return ==
    /\ pc = "exit"
    /\ IF Jpeg(fn) /\ blob = NoBlob
       THEN pc' = "thrown" /\ error' = "noblob" /\ UNCHANGED <<result, prepared>>
       ELSE /\ pc' = "returned"
            /\ result' = blob
            /\ prepared' = IF fn \in {PrepareFn, MobileFn}
                           THEN Wrapped(fn, file, blob)
                           ELSE prepared
            /\ error' = error
    /\ UNCHANGED <<Inputs, Locals, History>>

Next ==
    \/ FastPath
    \/ Process
    \/ ReadOk
    \/ ReadFail
    \/ LoadOk
    \/ LoadFail
    \/ EncodeWithin
    \/ ReduceQuality
    \/ ReduceDimensions
    \/ EncodeFail
    \/ Exhausted
    \/ Return

Spec == Init /\ [][Next]_vars

\* every pending promise of the invocation settles
FairSpec == Spec /\ WF_vars(Next)

-----------------------------------------------------------------------------
(* calculateDimensions called on its own, over a grid of small arguments  *)
(* and the photo sizes the resizer meets                                   *)

\* no resizer invocation is under way
ResizerIdle ==
    /\ fn = "none" /\ file = NoBlob /\ config = DEFAULT_CONFIG
    /\ settings = DEFAULT_CONFIG /\ isIOS = FALSE
    /\ pc = "idle"
    /\ width = 0 /\ height = 0 /\ quality = 0
    /\ blob = NoBlob /\ attempts = 0
    /\ result = NoBlob /\ prepared = NoPrepared /\ error = "none"
    /\ reads = 0 /\ decodes = 0 /\ encodes = 0
    /\ prev = NoAttempt /\ floorSeen = FALSE /\ failsInRow = 0 /\ failures = 0
    /\ exitReason = "none"

MaxSide == 6

DimsCalls ==
    [width : 1..MaxSide, height : 1..MaxSide,
     maxWidth : 1..MaxSide, maxHeight : 1..MaxSide]
    \cup [width : {6000, 4096, 4097, 3000, 10000},
          height : {4000, 4096, 2000, 1},
          maxWidth : {DefaultMaxWidth, 2048}, maxHeight : {DefaultMaxHeight, 2048}]

InitDims ==
    /\ ResizerIdle /\ FirestoreEmpty /\ AdminIdle /\ StoreIdle /\ MoreIdle
    /\ dimsIn \in DimsCalls
    /\ dimsOut = NoDims

\* const { width, height } = calculateDimensions(...)
Calculate ==
    /\ dimsOut = NoDims
    /\ dimsOut' = calculateDimensions(dimsIn.width, dimsIn.height,
                                      dimsIn.maxWidth, dimsIn.maxHeight)
    /\ UNCHANGED <<dimsIn, ResizerVars, FirestoreVars, AdminVars, StoreVars, MoreVars>>

NextDims == Calculate

SpecDims == InitDims /\ [][NextDims]_vars

-----------------------------------------------------------------------------
(* drawToCanvas called on its own, with the target dimensions that         *)
(* calculateDimensions hands it                                            *)

MaxHalvings == 6

DrawSources == {<<6000, 4000>>, <<9000, 6000>>, <<3000, 2000>>, <<10000, 1>>, <<3, 30000>>}
DrawLimits == {4096, 2048, 1024, 400}

DrawCalls ==
    {[imgWidth |-> d[1], imgHeight |-> d[2],
      targetWidth |-> calculateDimensions(d[1], d[2], mw, mh).width,
      targetHeight |-> calculateDimensions(d[1], d[2], mw, mh).height,
      useProgressiveResize |-> p] :
        d \in DrawSources, mw \in DrawLimits, mh \in DrawLimits, p \in BOOLEAN}

OutsideDraw ==
    <<ResizerVars, DimsVars, FirestoreVars, AdminVars, StoreVars, ModalVars, ViewerVars>>

InitDraw ==
    /\ ResizerIdle /\ DimsIdle /\ FirestoreEmpty /\ AdminIdle /\ StoreIdle
    /\ ModalIdle /\ ViewerIdle
    /\ drawIn \in DrawCalls
    /\ drawPc = "call"
    /\ currentWidth = 0 /\ currentHeight = 0 /\ halvings = 0 /\ drawn = <<>>

\* scaleRatio = img.width / targetWidth; useProgressiveResize && scaleRatio > 2
\* (a targetWidth of 0 makes scaleRatio Infinity)
Progressive(c) == c.useProgressiveResize /\ c.imgWidth > 2 * c.targetWidth

\* if (useProgressiveResize && scaleRatio > 2) { let currentWidth = img.width ...
EnterProgressive ==
    /\ drawPc = "call" /\ Progressive(drawIn)
    /\ currentWidth' = drawIn.imgWidth /\ currentHeight' = drawIn.imgHeight
    /\ drawPc' = "while"
    /\ UNCHANGED <<drawIn, halvings, drawn, OutsideDraw>>

\* while (currentWidth / 2 > targetWidth): one step canvas at half the size
Halve ==
    /\ drawPc = "while" /\ currentWidth > 2 * drawIn.targetWidth
    /\ currentWidth' = RoundMulDiv(currentWidth, 1, 2)
    /\ currentHeight' = RoundMulDiv(currentHeight, 1, 2)
    /\ halvings' = Min(halvings + 1, MaxHalvings)
    /\ UNCHANGED <<drawIn, drawPc, drawn, OutsideDraw>>

\* the loop is left: the final resize step to the target dimensions
FinalResize ==
    /\ drawPc = "while" /\ ~(currentWidth > 2 * drawIn.targetWidth)
    /\ drawn' = Append(drawn, [width |-> drawIn.targetWidth, height |-> drawIn.targetHeight])
    /\ drawPc' = "done"
    /\ UNCHANGED <<drawIn, currentWidth, currentHeight, halvings, OutsideDraw>>

\* the single-step resize for smaller reductions
SingleResize ==
    /\ drawPc = "call" /\ ~Progressive(drawIn)
    /\ drawn' = Append(drawn, [width |-> drawIn.targetWidth, height |-> drawIn.targetHeight])
    /\ drawPc' = "done"
    /\ UNCHANGED <<drawIn, currentWidth, currentHeight, halvings, OutsideDraw>>

NextDraw ==
    \/ EnterProgressive
    \/ Halve
    \/ FinalResize
    \/ SingleResize

SpecDraw == InitDraw /\ [][NextDraw]_vars

\* the function runs to its end: no step of it waits on anything
FairSpecDraw == SpecDraw /\ WF_vars(NextDraw)

-----------------------------------------------------------------------------
(* The documented Firestore security rules (src/unnamed/part_000), applied *)
(* to the operations of any client, signed in or not                       *)

\* function isAdmin()
isAdmin(a, docs) ==
    a # NoUser /\ docs[a].exists /\ docs[a].isAdmin = "true"

\* match /items/{itemId}
ItemsReadAllowed(a) == TRUE
ItemsWriteAllowed(a, docs) == isAdmin(a, docs)

\* match /users/{userId}: allow read, write
UsersWriteAllowed(a, userId) == a # NoUser /\ a = userId

Verdict(op, a, ok) == [op |-> op, auth |-> a, allowed |-> ok]

InitRules ==
    /\ ResizerIdle /\ DimsIdle /\ AdminIdle /\ StoreIdle /\ MoreIdle
    /\ FirestoreEmpty

\* the state the rules do not speak of
OutsideFirestore == <<ResizerVars, DimsVars, AdminVars, StoreVars, MoreVars>>

\* "Setting Up Admin Users": the console writes users/{uid} with isAdmin = true
ConsoleSetAdmin ==
    \E u \in Uids :
        /\ userDocs' = [userDocs EXCEPT ![u] = [exists |-> TRUE, isAdmin |-> "true"]]
        /\ granted' = granted \cup {u}
        /\ lastOp' = Verdict("console", NoUser, TRUE)
        /\ UNCHANGED <<items, requestDocs, OutsideFirestore>>

\* a client, authenticated as a or not at all, writes users/{u}
SetUserDoc ==
    \E a \in Uids \cup {NoUser}, u \in Uids, data \in UserDocValues :
        /\ lastOp' = Verdict("users.write", a, UsersWriteAllowed(a, u))
        /\ userDocs' = IF UsersWriteAllowed(a, u)
                        THEN [userDocs EXCEPT ![u] = data] ELSE userDocs
        /\ UNCHANGED <<granted, items, requestDocs, OutsideFirestore>>

\* a client, authenticated as a or not at all, writes items/{i}
SetItem ==
    \E a \in Uids \cup {NoUser}, i \in ItemIds :
        /\ lastOp' = Verdict("items.write", a, ItemsWriteAllowed(a, userDocs))
        /\ items' = IF ItemsWriteAllowed(a, userDocs)
                     THEN [items EXCEPT ![i] = [exists |-> TRUE, writer |-> a]]
                     ELSE items
        /\ UNCHANGED <<userDocs, granted, requestDocs, OutsideFirestore>>

\* a client, authenticated as a or not at all, reads items/{i}
GetItem ==
    \E a \in Uids \cup {NoUser}, i \in ItemIds :
        /\ lastOp' = Verdict("items.read", a, ItemsReadAllowed(a))
        /\ UNCHANGED <<userDocs, granted, items, requestDocs, OutsideFirestore>>

NextRules ==
    \/ ConsoleSetAdmin
    \/ SetUserDoc
    \/ SetItem
    \/ GetItem

SpecRules == InitRules /\ [][NextRules]_vars

-----------------------------------------------------------------------------
(* The admin page (src/scripts/admin.js): the onAuthStateChanged callback  *)
(* and checkIsAdmin (src/unnamed/part_004)                                 *)

MaxAuthEvents == 2

\* what getDoc(doc(db, "users", userId)) gave a run of checkIsAdmin
NoRead == [outcome |-> "none", isAdmin |-> "undefined"]
Skipped == [outcome |-> "skipped", isAdmin |-> "undefined"]
ReadError == [outcome |-> "error", isAdmin |-> "undefined"]
Snapshot(d) ==
    [outcome |-> IF d.exists THEN "found" ELSE "missing", isAdmin |-> d.isAdmin]

\* variant: the field tested for truthiness instead of === true
checkIsAdminTruthy(userId, got) ==
    IF userId = NoUser THEN FALSE
    ELSE IF got.outcome = "error" THEN FALSE
    ELSE got.outcome = "found" /\ got.isAdmin \in {"true", "'true'"}

\* checkIsAdmin(userId), got being what the read of users/{userId} gave
checkIsAdmin(userId, got) ==
    IF userId = NoUser THEN FALSE
    ELSE IF got.outcome = "error" THEN FALSE
    ELSE got.outcome = "found" /\ got.isAdmin = "true"

OutsideAdmin ==
    <<ResizerVars, DimsVars, StoreVars, MoreVars, granted, items, requestDocs, lastOp>>

InitAdmin ==
    /\ ResizerIdle /\ DimsIdle /\ StoreIdle /\ MoreIdle
    /\ userDocs \in [Uids -> {NoDoc} \cup UserDocValues]
    /\ granted = {} /\ items = [i \in ItemIds |-> NoItem]
    /\ requestDocs = {} /\ lastOp = NoOp
    /\ adminCurrentUser = NoUser /\ adminCbs = <<>>
    /\ adminMessageHidden \in BOOLEAN /\ queries = {}

\* the auth state changes: the callback starts, sets currentUser and calls
\* checkIsAdmin(user?.uid); a sign-in follows only a signed-out state
AuthStateChanged ==
    \E u \in Uids \cup {NoUser} :
        /\ Len(adminCbs) < MaxAuthEvents
        /\ adminCbs # <<>> =>
              /\ adminCbs[Len(adminCbs)].user # u
              /\ NoUser \in {u, adminCbs[Len(adminCbs)].user}
        /\ adminCbs' = Append(adminCbs, [user |-> u, pc |-> "check",
                                         got |-> NoRead, isAdmin |-> FALSE])
        /\ adminCurrentUser' = u
        /\ UNCHANGED <<adminMessageHidden, queries, userDocs, OutsideAdmin>>

Checked(k, got) ==
    /\ adminCbs[k].pc = "check"
    /\ adminCbs' = [adminCbs EXCEPT ![k].pc = "gate", ![k].got = got,
                        ![k].isAdmin = checkIsAdmin(adminCbs[k].user, got)]
    /\ UNCHANGED <<adminCurrentUser, adminMessageHidden, queries, userDocs, OutsideAdmin>>

\* if (!userId) return false
CheckNoUid ==
    \E k \in DOMAIN adminCbs :
        adminCbs[k].user = NoUser /\ Checked(k, Skipped)

\* getDoc resolves with the snapshot of users/{userId}
CheckRead ==
    \E k \in DOMAIN adminCbs :
        adminCbs[k].user # NoUser /\ Checked(k, Snapshot(userDocs[adminCbs[k].user]))

\* getDoc rejects: catch (error) { return false }
CheckError ==
    \E k \in DOMAIN adminCbs :
        adminCbs[k].user # NoUser /\ Checked(k, ReadError)

\* if (!user || !isAdmin) { adminMessage.hidden = false; ...; return }
AccessDenied ==
    \E k \in DOMAIN adminCbs :
        /\ adminCbs[k].pc = "gate"
        /\ adminCbs[k].user = NoUser \/ ~adminCbs[k].isAdmin
        /\ adminMessageHidden' = FALSE
        /\ adminCbs' = [adminCbs EXCEPT ![k].pc = "done"]
        /\ UNCHANGED <<adminCurrentUser, queries, userDocs, OutsideAdmin>>

\* adminMessage.hidden = true; await Promise.all([loadItems(), loadRequests()])
LoadAll ==
    \E k \in DOMAIN adminCbs :
        /\ adminCbs[k].pc = "gate"
        /\ ~(adminCbs[k].user = NoUser \/ ~adminCbs[k].isAdmin)
        /\ adminMessageHidden' = TRUE
        /\ queries' = queries \cup {[cb |-> k, coll |-> "items"],
                                    [cb |-> k, coll |-> "requests"]}
        /\ adminCbs' = [adminCbs EXCEPT ![k].pc = "done"]
        /\ UNCHANGED <<adminCurrentUser, userDocs, OutsideAdmin>>

NextAdmin ==
    \/ AuthStateChanged
    \/ CheckNoUid
    \/ CheckRead
    \/ CheckError
    \/ AccessDenied
    \/ LoadAll

SpecAdmin == InitAdmin /\ [][NextAdmin]_vars

-----------------------------------------------------------------------------
(* The storefront (src/scripts/main.js): sign-in and sign-out, watchAuth,  *)
(* the request form; and the admin page's request list and status change   *)
(* (src/scripts/admin.js), all under the documented rules for requests     *)

MaxRequests == 1

\* const STATUS_OPTIONS
STATUS_OPTIONS == <<"new", "contacted", "pending", "sold", "declined">>

\* variant: the create rule without the userId comparison
RequestCreateAllowedAnyUser(a, data) == a # NoUser

\* match /requests/{requestId}: allow create
RequestCreateAllowed(a, data) == a # NoUser /\ data.userId = a

\* allow read, for the query over the whole collection that loadRequests
\* makes: only isAdmin() holds of every document it may return
RequestsListAllowed(a, docs) == isAdmin(a, docs)

\* allow update, delete
RequestUpdateAllowed(a, res) == a # NoUser /\ a = res.userId

OutsideStore == <<ResizerVars, DimsVars, AdminVars, MoreVars, userDocs, granted, items>>

InitStore ==
    /\ ResizerIdle /\ DimsIdle /\ AdminIdle /\ MoreIdle
    /\ userDocs \in [Uids -> {NoDoc, [exists |-> TRUE, isAdmin |-> "true"]}]
    /\ granted = {} /\ items = [i \in ItemIds |-> NoItem]
    /\ requestDocs = {} /\ lastOp = NoOp
    /\ authUser \in Uids \cup {NoUser}
    /\ authEvents = 0 /\ pendingAuth = <<authUser>>
    /\ currentUser = NoUser /\ mainIsAdmin = FALSE /\ checks = {}
    /\ formBuilt = FALSE /\ requests = {}

\* signInWithPopup(auth, provider) succeeds for the account u
SignIn ==
    \E u \in Uids :
        /\ authUser = NoUser /\ authEvents < MaxAuthEvents
        /\ authUser' = u /\ authEvents' = authEvents + 1
        /\ pendingAuth' = Append(pendingAuth, u)
        /\ UNCHANGED <<currentUser, mainIsAdmin, checks, formBuilt, requests,
                       requestDocs, lastOp, OutsideStore>>

\* signOut(auth)
SignOut ==
    /\ authUser # NoUser /\ authEvents < MaxAuthEvents
    /\ authUser' = NoUser /\ authEvents' = authEvents + 1
    /\ pendingAuth' = Append(pendingAuth, NoUser)
    /\ UNCHANGED <<currentUser, mainIsAdmin, checks, formBuilt, requests,
                   requestDocs, lastOp, OutsideStore>>

\* watchAuth: the callback runs for the oldest undelivered auth state:
\* currentUser = user, then checkIsAdmin(user?.uid) is awaited
WatchAuth ==
    /\ pendingAuth # <<>>
    /\ currentUser' = Head(pendingAuth)
    /\ pendingAuth' = Tail(pendingAuth)
    /\ checks' = checks \cup {[n |-> authEvents - Len(pendingAuth),
                                user |-> Head(pendingAuth)]}
    /\ UNCHANGED <<authUser, authEvents, mainIsAdmin, formBuilt, requests,
                   requestDocs, lastOp, OutsideStore>>

\* watchAuth: a pending checkIsAdmin settles; isAdmin = ...; updateAuthUI()
AdminCheckSettled ==
    \E c \in checks :
        \E got \in (IF c.user = NoUser THEN {Skipped}
                     ELSE {Snapshot(userDocs[c.user]), ReadError}) :
            /\ mainIsAdmin' = checkIsAdmin(c.user, got)
            /\ checks' = checks \ {c}
            /\ UNCHANGED <<authUser, authEvents, pendingAuth, currentUser, formBuilt,
                           requests, requestDocs, lastOp, OutsideStore>>

\* openModal(item): the request form is built only if (currentUser)
OpenModal ==
    /\ formBuilt' = (currentUser # NoUser)
    /\ UNCHANGED <<authUser, authEvents, pendingAuth, currentUser, mainIsAdmin,
                   checks, requests, requestDocs, lastOp, OutsideStore>>

\* closeModal()
CloseModal ==
    /\ formBuilt
    /\ formBuilt' = FALSE
    /\ UNCHANGED <<authUser, authEvents, pendingAuth, currentUser, mainIsAdmin,
                   checks, requests, requestDocs, lastOp, OutsideStore>>

\* the form's submit handler: reading currentUser.uid of a null currentUser
\* throws inside the try; otherwise addDoc is sent with the auth state of
\* the moment and the create rule decides; on success the submit button
\* stays disabled, on failure it is enabled again
SubmitRequest ==
    /\ formBuilt
    /\ currentUser = NoUser \/ Cardinality(requestDocs) < MaxRequests
    /\ IF currentUser = NoUser
       THEN /\ lastOp' = Verdict("requests.create TypeError", authUser, FALSE)
            /\ UNCHANGED <<requestDocs, formBuilt>>
       ELSE LET data == [userId |-> currentUser, status |-> "new"]
                ok == RequestCreateAllowed(authUser, data)
            IN /\ lastOp' = Verdict("requests.create", authUser, ok)
               /\ requestDocs' =
                     IF ok THEN requestDocs \cup
                                {[id |-> Cardinality(requestDocs) + 1,
                                  userId |-> data.userId, status |-> data.status]}
                     ELSE requestDocs
               /\ formBuilt' = ~ok
    /\ UNCHANGED <<authUser, authEvents, pendingAuth, currentUser, mainIsAdmin,
                   checks, requests, OutsideStore>>

\* loadRequests(): getDocs over the requests collection; a rejected query
\* leaves the list as it was
LoadRequests ==
    /\ authUser # NoUser
    /\ lastOp' = Verdict("requests.list", authUser, RequestsListAllowed(authUser, userDocs))
    /\ requests' = IF RequestsListAllowed(authUser, userDocs)
                    THEN {d.id : d \in requestDocs} ELSE requests
    /\ UNCHANGED <<authUser, authEvents, pendingAuth, currentUser, mainIsAdmin,
                   checks, formBuilt, requestDocs, OutsideStore>>

\* handleStatusChange(request, newStatus), newStatus an option of the dropdown
handleStatusChange ==
    \E r \in requests, o \in DOMAIN STATUS_OPTIONS :
        \E d \in {e \in requestDocs : e.id = r} :
            /\ lastOp' = Verdict("requests.update", authUser, RequestUpdateAllowed(authUser, d))
            /\ requestDocs' =
                  IF RequestUpdateAllowed(authUser, d)
                  THEN (requestDocs \ {d}) \cup {[d EXCEPT !.status = STATUS_OPTIONS[o]]}
                  ELSE requestDocs
            /\ UNCHANGED <<authUser, authEvents, pendingAuth, currentUser, mainIsAdmin,
                           checks, formBuilt, requests, OutsideStore>>

\* handleDeleteRequest(request), the confirm accepted: deleteDoc, and on
\* success loadRequests(); a rejected delete leaves everything as it was
handleDeleteRequest ==
    \E r \in requests :
        \E d \in {e \in requestDocs : e.id = r} :
            LET ok == RequestUpdateAllowed(authUser, d)
                list == RequestsListAllowed(authUser, userDocs)
            IN /\ requestDocs' = IF ok THEN requestDocs \ {d} ELSE requestDocs
               /\ lastOp' = IF ok THEN Verdict("requests.list", authUser, list)
                                  ELSE Verdict("requests.delete", authUser, FALSE)
               /\ requests' = IF ok /\ list THEN {e.id : e \in requestDocs'}
                                             ELSE requests
               /\ UNCHANGED <<authUser, authEvents, pendingAuth, currentUser,
                              mainIsAdmin, checks, formBuilt, OutsideStore>>

NextStore ==
    \/ SignIn
    \/ SignOut
    \/ WatchAuth
    \/ AdminCheckSettled
    \/ OpenModal
    \/ CloseModal
    \/ SubmitRequest
    \/ LoadRequests
    \/ handleStatusChange

SpecStore == InitStore /\ [][NextStore]_vars

\* The admin panel's request list on its own, over a database that already
\* holds requests made on the storefront, each by the user it names and
\* with a status of the dropdown

StoredRequests ==
    {docs \in SUBSET [id : 1..MaxRequests, userId : Uids,
                      status : {STATUS_OPTIONS[o] : o \in DOMAIN STATUS_OPTIONS}] :
        /\ \A d, e \in docs : d.id = e.id => d = e
        /\ \A d \in docs : \A j \in 1..(d.id - 1) : \E e \in docs : e.id = j}

InitPanel ==
    /\ ResizerIdle /\ DimsIdle /\ AdminIdle /\ MoreIdle
    /\ userDocs \in [Uids -> {NoDoc, [exists |-> TRUE, isAdmin |-> "true"]}]
    /\ granted = {} /\ items = [i \in ItemIds |-> NoItem]
    /\ requestDocs \in StoredRequests /\ lastOp = NoOp
    /\ authUser \in Uids
    /\ authEvents = 0 /\ pendingAuth = <<>>
    /\ currentUser = NoUser /\ mainIsAdmin = FALSE /\ checks = {}
    /\ formBuilt = FALSE /\ requests = {}

NextPanel ==
    \/ LoadRequests
    \/ handleStatusChange
    \/ handleDeleteRequest

SpecPanel == InitPanel /\ [][NextPanel]_vars

-----------------------------------------------------------------------------
(* The admin item modal (src/scripts/admin.js): openModal, closeModal, the *)
(* image upload handlers, the preview tiles and the item form              *)

MaxUploads == 2
MaxSessions == 2
MaxClicks == 1
MaxImages == 8
BatchSizes == {1, 2}

Slot(item) == IF item = NoItemId THEN NewItemId ELSE item

\* renderImagePreviews: currentImages.forEach((url, index) => addImagePreview(url, index))
Rendered(images) == [k \in 1..Len(images) |-> [url |-> images[k], index |-> k - 1]]

\* currentImages.splice(index, 1)
Splice(images, index) ==
    IF index + 1 \in DOMAIN images
    THEN [k \in 1..(Len(images) - 1) |-> IF k <= index THEN images[k] ELSE images[k + 1]]
    ELSE images

OutsideModal ==
    <<ResizerVars, DimsVars, FirestoreVars, AdminVars, StoreVars, DrawVars, ViewerVars>>

InitModal ==
    /\ ResizerIdle /\ DimsIdle /\ FirestoreEmpty /\ AdminIdle /\ StoreIdle
    /\ DrawIdle /\ ViewerIdle
    /\ ModalIdle

\* openModal(item), from the add button or an item's edit button
OpenItemModal ==
    \E item \in ItemIds \cup {NoItemId} :
        /\ ~modalOpen /\ session < MaxSessions
        /\ editingItem' = item
        /\ currentImages' = IF item = NoItemId THEN <<>> ELSE savedImages[item]
        /\ imagesInput' = currentImages'
        /\ tiles' = Rendered(currentImages')
        /\ dropzoneHidden' = (Len(currentImages') >= MaxImages)
        /\ submitDisabled' = FALSE
        /\ modalOpen' = TRUE /\ session' = session + 1
        /\ UNCHANGED <<isUploading, uploadingImageIndex, closeTimer, uploads, started,
                       clicks, savedImages, OutsideModal>>

\* closeModal(); go = FALSE: the confirm shown while isUploading was declined
closeModal(go) ==
    IF isUploading /\ ~go
    THEN UNCHANGED <<modalOpen, editingItem, currentImages, imagesInput, tiles,
                     dropzoneHidden, submitDisabled>>
    ELSE /\ modalOpen' = FALSE /\ editingItem' = NoItemId
         /\ currentImages' = <<>> /\ imagesInput' = <<>> /\ tiles' = <<>>
         /\ dropzoneHidden' = FALSE /\ submitDisabled' = FALSE

\* the close and cancel buttons, a click on the backdrop
CloseItemModal ==
    \E go \in BOOLEAN :
        /\ modalOpen
        /\ closeModal(go)
        /\ UNCHANGED <<session, isUploading, uploadingImageIndex, closeTimer, uploads,
                       started, clicks, savedImages, OutsideModal>>

\* setTimeout(closeModal, 800) fires
TimerClose ==
    \E go \in BOOLEAN :
        /\ closeTimer /\ closeTimer' = FALSE
        /\ closeModal(go)
        /\ UNCHANGED <<session, isUploading, uploadingImageIndex, uploads, started,
                       clicks, savedImages, OutsideModal>>

\* handleImageFiles(files) with n image files: the slot check, then
\* handleImageFile of the first file up to its await
handleImageFiles(n) ==
    /\ modalOpen /\ ~dropzoneHidden
    /\ started + n <= MaxUploads
    /\ n <= MaxImages - Len(currentImages)
    /\ uploads' = uploads \cup {[id |-> started + 1, session |-> session,
                                  item |-> Slot(editingItem),
                                  imageIndex |-> Len(currentImages), left |-> n - 1]}
    /\ uploadingImageIndex' = Len(currentImages)
    /\ isUploading' = TRUE
    /\ started' = started + n
    /\ UNCHANGED <<modalOpen, editingItem, session, currentImages, imagesInput, tiles,
                   dropzoneHidden, submitDisabled, closeTimer, clicks, savedImages,
                   OutsideModal>>

\* imageFileInput "change"
SelectFiles == \E n \in BatchSizes : handleImageFiles(n)

\* imageDropzone "drop"
DropFiles == \E n \in BatchSizes : handleImageFiles(n)

\* handleImageFile after its await: the push and the preview on success, the
\* finally block, and the start of the batch's next file if it has one
Settled(u, images) ==
    /\ IF u.left > 0 /\ Len(images) < MaxImages
       THEN /\ uploads' = (uploads \ {u}) \cup
                             {[id |-> u.id + 1, session |-> session,
                               item |-> Slot(editingItem),
                               imageIndex |-> Len(images), left |-> u.left - 1]}
            /\ isUploading' = TRUE
            /\ uploadingImageIndex' = Len(images)
       ELSE /\ uploads' = uploads \ {u}
            /\ isUploading' = FALSE
            /\ uploadingImageIndex' = -1
    /\ UNCHANGED <<modalOpen, editingItem, session, submitDisabled, closeTimer,
                   started, clicks, savedImages, OutsideModal>>

\* uploadToCloudinary resolves with the URL of the image
UploadDone ==
    \E u \in uploads :
        LET url == [n |-> 10 + u.id, session |-> u.session, item |-> u.item]
            images == Append(currentImages, url)
        IN /\ currentImages' = images
           /\ imagesInput' = images
           /\ tiles' = Append(tiles, [url |-> url, index |-> u.imageIndex])
           /\ dropzoneHidden' = (Len(images) >= MaxImages \/ dropzoneHidden)
           /\ Settled(u, images)

\* uploadToCloudinary rejects
UploadFail ==
    \E u \in uploads :
        /\ UNCHANGED <<currentImages, imagesInput, tiles, dropzoneHidden>>
        /\ Settled(u, currentImages)

\* a preview tile's remove button: removeImage(index)
RemoveImage ==
    \E t \in DOMAIN tiles :
        /\ modalOpen /\ clicks.n < MaxClicks
        /\ currentImages' = Splice(currentImages, tiles[t].index)
        /\ imagesInput' = currentImages'
        /\ tiles' = Rendered(currentImages')
        /\ dropzoneHidden' = (Len(currentImages') >= MaxImages /\ dropzoneHidden)
        /\ clicks' = [n |-> clicks.n + 1, url |-> tiles[t].url]
        /\ UNCHANGED <<modalOpen, editingItem, session, isUploading, uploadingImageIndex,
                       submitDisabled, closeTimer, uploads, started, savedImages,
                       OutsideModal>>

\* the item form's submit handler, refused while isUploading; the write
\* stores the images the hidden input holds and the modal closes later
SubmitItem ==
    /\ modalOpen /\ ~submitDisabled
    /\ ~isUploading
    /\ savedImages' = [savedImages EXCEPT ![Slot(editingItem)] = imagesInput]
    /\ submitDisabled' = TRUE
    /\ closeTimer' = TRUE
    /\ UNCHANGED <<modalOpen, editingItem, session, currentImages, imagesInput, tiles,
                   isUploading, uploadingImageIndex, dropzoneHidden, uploads, started,
                   clicks, OutsideModal>>

NextModal ==
    \/ OpenItemModal
    \/ CloseItemModal
    \/ TimerClose
    \/ SelectFiles
    \/ DropFiles
    \/ UploadDone
    \/ UploadFail
    \/ RemoveImage
    \/ SubmitItem

SpecModal == InitModal /\ [][NextModal]_vars

-----------------------------------------------------------------------------
(* The storefront's fullscreen image viewer (src/unnamed/part_004)         *)

MaxViewerImages == 6
MaxViewerMoves == 4

\* the images arrays the carousels and cards are built from: image k of an
\* item is the number k
ViewerLists == {[k \in 1..n |-> k] : n \in 1..MaxViewerImages}

OutsideViewer ==
    <<ResizerVars, DimsVars, FirestoreVars, AdminVars, StoreVars, DrawVars, ModalVars>>

InitViewer ==
    /\ ResizerIdle /\ DimsIdle /\ FirestoreEmpty /\ AdminIdle /\ StoreIdle
    /\ DrawIdle /\ ModalIdle
    /\ ViewerIdle

\* showFullscreenImage(index), fullscreenViewerImages being images
showFullscreenImage(images, index) ==
    /\ prevDisabled' = (index = 0)
    /\ nextDisabled' = (index = Len(images) - 1)
    /\ fullscreenViewerCurrentIndex' = index

\* variant: the comparison of nextFullscreenImage with <= for <
nextFullscreenImageOffByOne ==
    IF fullscreenViewerCurrentIndex <= Len(fullscreenViewerImages) - 1
    THEN showFullscreenImage(fullscreenViewerImages, fullscreenViewerCurrentIndex + 1)
    ELSE UNCHANGED <<prevDisabled, nextDisabled, fullscreenViewerCurrentIndex>>

nextFullscreenImage ==
    IF fullscreenViewerCurrentIndex < Len(fullscreenViewerImages) - 1
    THEN showFullscreenImage(fullscreenViewerImages, fullscreenViewerCurrentIndex + 1)
    ELSE UNCHANGED <<prevDisabled, nextDisabled, fullscreenViewerCurrentIndex>>

prevFullscreenImage ==
    IF fullscreenViewerCurrentIndex > 0
    THEN showFullscreenImage(fullscreenViewerImages, fullscreenViewerCurrentIndex - 1)
    ELSE UNCHANGED <<prevDisabled, nextDisabled, fullscreenViewerCurrentIndex>>

\* a click on image number index + 1 of a carousel, or on a card's image
\* (index 0): openFullscreenViewer(images, index, altText)
OpenViewer ==
    \E images \in ViewerLists :
        \E index \in 0..(Len(images) - 1) :
            /\ viewerHidden
            /\ fullscreenViewerImages' = images
            /\ navHidden' = ~(Len(images) > 1)
            /\ viewerHidden' = FALSE
            /\ showFullscreenImage(images, index)
            /\ viewerMoves' = 0 /\ viewerLast' = NoMove
            /\ UNCHANGED OutsideViewer

\* closeFullscreenViewer(): the close button, a click beside the image, Escape
CloseViewer ==
    /\ ~viewerHidden
    /\ viewerHidden' = TRUE
    /\ fullscreenViewerImages' = <<>>
    /\ fullscreenViewerCurrentIndex' = 0
    /\ viewerMoves' = 0 /\ viewerLast' = NoMove
    /\ UNCHANGED <<navHidden, prevDisabled, nextDisabled, OutsideViewer>>

Moved(move) ==
    /\ viewerMoves < MaxViewerMoves
    /\ viewerMoves' = viewerMoves + 1
    /\ viewerLast' = [move |-> move, from |-> fullscreenViewerCurrentIndex]
    /\ UNCHANGED <<fullscreenViewerImages, viewerHidden, navHidden, OutsideViewer>>

\* a click on the next button, which is shown and enabled
ClickNext ==
    /\ ~viewerHidden /\ ~navHidden /\ ~nextDisabled
    /\ nextFullscreenImage
    /\ Moved("next")

\* a click on the previous button, which is shown and enabled
ClickPrev ==
    /\ ~viewerHidden /\ ~navHidden /\ ~prevDisabled
    /\ prevFullscreenImage
    /\ Moved("prev")

\* keydown ArrowRight
ArrowRight ==
    /\ ~viewerHidden /\ Len(fullscreenViewerImages) > 1
    /\ nextFullscreenImage
    /\ Moved("next")

\* keydown ArrowLeft
ArrowLeft ==
    /\ ~viewerHidden /\ Len(fullscreenViewerImages) > 1
    /\ prevFullscreenImage
    /\ Moved("prev")

NextViewer ==
    \/ OpenViewer
    \/ CloseViewer
    \/ ClickNext
    \/ ClickPrev
    \/ ArrowRight
    \/ ArrowLeft

SpecViewer == InitViewer /\ [][NextViewer]_vars

-----------------------------------------------------------------------------
(* Properties *)

Finished == pc \in {"returned", "thrown"}
Budget == settings.maxSizeBytes
\* the floors and minimums as the specification states them
StatedFloor == IF Jpeg(fn) THEN 350 ELSE 500
StatedMinWidth == IF Jpeg(fn) THEN 400 ELSE 800
StatedMinHeight == IF Jpeg(fn) THEN 300 ELSE 600
StatedMaxAttempts == IF Jpeg(fn) THEN 15 ELSE 10
\* a step that makes an encode attempt, after an earlier attempt
LaterAttempt == encodes' = encodes + 1 /\ encodes > 0
FirstDimensions == InitialDimensions(fn, file, settings, isIOS)

\* C1: a source whose size is <= maxSizeBytes is returned as the very same
\* object by resizeImage with no read, decode or encode performed, and
\* prepareImageForUpload reports blob = source, finalSize = originalSize =
\* the source's size and wasResized = false.
FastPathIdentity ==
    (~Jpeg(fn) /\ file.size <= Budget) =>
        /\ pc \in {"call", "returned"}
        /\ reads = 0 /\ decodes = 0 /\ encodes = 0
        /\ pc = "returned" =>
              /\ result = file
              /\ fn = PrepareFn =>
                    prepared = [originalSize |-> file.size, finalSize |-> file.size,
                                wasResized |-> FALSE]

FastPathTaken ==
    /\ pc = "returned" /\ fn = PrepareFn
    /\ file.size = Budget /\ result = file /\ ~prepared.wasResized

DimensionsWithinLimits ==
    (pc = "returned" /\ ~result.src) =>
        /\ result.width <= settings.maxWidth /\ result.height <= settings.maxHeight
        /\ result.width >= StatedMinWidth /\ result.height >= StatedMinHeight

\* C4 as amended: the dimensions of the returned blob never exceed
\* maxWidth/maxHeight, and they are at least the minimum width/height
\* unless the blob has the dimensions of the first attempt (the source's
\* dimensions clamped to the maximum, which are never scaled up).
DimensionsWithinLimitsOrFirst ==
    (pc = "returned" /\ ~result.src) =>
        /\ result.width <= settings.maxWidth /\ result.height <= settings.maxHeight
        /\ \/ result.width >= StatedMinWidth /\ result.height >= StatedMinHeight
           \/ result.width = FirstDimensions.width /\ result.height = FirstDimensions.height

ShrunkToLimits ==
    /\ pc = "returned" /\ ~result.src /\ exitReason = "minimum"
    /\ result.width < FirstDimensions.width
    /\ FirstDimensions.width < file.width

\* C5: an attempt whose blob is <= maxSizeBytes ends the loop and its blob
\* is the one returned; a returned blob over maxSizeBytes means the loop
\* ended by running out of attempts or by the minimum-dimension guard.
StopOnSuccess ==
    /\ pc = "loop" => (blob = NoBlob \/ blob.size > Budget)
    /\ (pc = "returned" /\ ~result.src) =>
          /\ result = blob
          /\ result.size <= Budget => (result.n = encodes /\ exitReason = "within")
          /\ result.size > Budget => exitReason \in {"exhausted", "minimum"}

StoppedOnSuccess ==
    /\ pc = "returned" /\ ~result.src /\ result.size = Budget
    /\ result.n > 1 /\ result.n < StatedMaxAttempts

\* C6: the quality of successive encode attempts never increases, and after
\* an attempt at the floor quality every later attempt is at the floor.
QualityMonotone ==
    [][LaterAttempt =>
          /\ quality <= prev.quality
          /\ floorSeen => quality = StatedFloor]_vars

QualityStaysAtFloor ==
    /\ encodes >= 3 /\ floorSeen /\ prev.quality = StatedFloor
    /\ failures = 0 /\ prev.width < FirstDimensions.width
    /\ settings.quality > StatedFloor

\* C7: the width and the height of successive encode attempts never
\* increase, in both variants and after an encode failure as well.
DimensionsMonotone ==
    [][LaterAttempt => (width <= prev.width /\ height <= prev.height)]_vars

DimensionsShrunk ==
    /\ Jpeg(fn) /\ failures > 0 /\ encodes >= 3
    /\ prev.width < FirstDimensions.width /\ blob # NoBlob
    /\ blob.width < FirstDimensions.width

\* C8 as stated: no encode attempt is made with a quality below the floor,
\* for every configured starting quality.
QualityFloorHard == encodes > 0 => prev.quality >= StatedFloor

\* C8 as amended: no encode attempt is made with a quality below the
\* smaller of the floor and the configured starting quality; a starting
\* quality below the floor is used unchanged by every attempt.
QualityFloorOrStart ==
    encodes > 0 =>
        /\ prev.quality >= Min(StatedFloor, settings.quality)
        /\ settings.quality < StatedFloor => prev.quality = settings.quality

QualityClamped ==
    /\ encodes > 1 /\ prev.quality = StatedFloor
    /\ settings.quality > StatedFloor /\ settings.quality < StatedFloor + 100

\* C9: a failed read or decode (either variant) and a failed encode in
\* resizeImage abort the invocation with an error, and no encode attempt
\* follows the failure.
FatalNotRetried ==
    /\ error = "read" => (pc = "thrown" /\ decodes = 0 /\ encodes = 0)
    /\ error = "load" => (pc = "thrown" /\ encodes = 0)
    /\ (~Jpeg(fn) /\ failures > 0) =>
          (pc = "thrown" /\ error = "encode" /\ failures = 1)
    /\ pc = "thrown" => (result = NoBlob /\ prepared = NoPrepared /\ error # "none")

EncodeFailureAborted ==
    /\ fn = PrepareFn /\ error = "encode" /\ encodes > 1

\* C10 as stated: in forceConvertToJpeg a failed encode is retried exactly
\* once at 70% of the dimensions, and a second failure in a row is fatal.
RetriedOnce == (Jpeg(fn) /\ failsInRow >= 2) => pc = "thrown"

\* C10 as amended: in forceConvertToJpeg every failed encode shrinks both
\* dimensions to 70% (rounded); the invocation gives up with a fatal error
\* exactly when the shrunk width is below 400 or the shrunk height below
\* 300, and otherwise goes on with the loop at the shrunk dimensions, also
\* after a second and later failure in a row.
RetriedWhileLargeEnough ==
    [][(Jpeg(fn) /\ failures' = failures + 1) =>
          /\ width' = (14 * width + 10) \div 20
          /\ height' = (14 * height + 10) \div 20
          /\ blob' = blob /\ quality' = quality
          /\ IF width' < 400 \/ height' < 300
             THEN pc' = "thrown" /\ error' = "canvas"
             ELSE pc' = "loop" /\ error' = "none"]_vars

RetriedTwice == Jpeg(fn) /\ failsInRow >= 2 /\ pc = "loop"

\* the hardware ceilings as the specification states them
StatedCeiling ==
    IF isIOS THEN [side |-> 2048, pixels |-> 4194304]
             ELSE [side |-> 4096, pixels |-> 16777216]

\* C11: in forceConvertToJpeg the first encode attempt has width <=
\* min(config maxWidth, ceiling), height <= min(config maxHeight, ceiling)
\* and width * height <= the ceiling's pixel count, the ceiling being
\* 2048/2048/4Mi on iOS and 4096/4096/16Mi elsewhere.
FirstAttemptUnderCeiling ==
    (Jpeg(fn) /\ encodes = 1) =>
        /\ prev.width <= Min(settings.maxWidth, StatedCeiling.side)
        /\ prev.height <= Min(settings.maxHeight, StatedCeiling.side)
        /\ prev.width * prev.height <= StatedCeiling.pixels

ClampedToCeiling ==
    /\ fn = ForceFn /\ isIOS /\ encodes = 1
    /\ settings.maxWidth = 4096 /\ file.width > 2048 /\ prev.width = 2048

\* C12 as stated: an invocation whose config sets maxAttempts = n makes at
\* most n encode attempts; 10 and 15 apply when the caller supplies none.
CallerAttemptBound ==
    encodes <= (IF settings.maxAttempts # Unset THEN settings.maxAttempts
                ELSE StatedMaxAttempts)

\* C12 as amended: the attempt bound is fixed in the code: every invocation
\* makes at most 10 (general) or 15 (mobile) encode attempts and the loop
\* runs out of attempts only after exactly that many, whatever maxAttempts
\* the caller's config holds.
FixedAttemptBound ==
    /\ encodes <= StatedMaxAttempts
    /\ exitReason = "exhausted" => attempts = StatedMaxAttempts

CallerBoundIgnored ==
    /\ settings.maxAttempts = CallerAttempts /\ exitReason = "exhausted"
    /\ pc = "returned" /\ encodes > CallerAttempts

\* the boolean the result object carries
ResultFlag == IF fn = PrepareFn THEN prepared.wasResized ELSE prepared.wasProcessed
Wrapping == pc = "returned" /\ fn \in {PrepareFn, MobileFn}

QualityStep ==
    [][(/\ encodes' = encodes + 1 /\ failures' = failures
        /\ blob'.size > Budget /\ quality > StatedFloor) =>
          LET cut == Max(100, (300 * (blob'.size - Budget)) \div blob'.size)
          IN /\ quality' = Max(StatedFloor, quality - cut)
             /\ quality' = StatedFloor \/ quality - quality' >= 100
             /\ quality - quality' < 300
             /\ width' = width /\ height' = height]_vars

QualityCutDeep ==
    /\ pc = "loop" /\ encodes > 0 /\ failures = 0
    /\ prev.quality - quality = 200 /\ quality > StatedFloor
    /\ width = prev.width

\* the square of the dimension scale as a fraction <<num, den>>:
\* max(floor, sqrt(sizeRatio * safety)) with the stated constants
StatedScaleSquared(size) ==
    IF Jpeg(fn)
    THEN IF 8 * Budget * 100 >= 36 * 10 * size
         THEN <<8 * Budget, 10 * size>> ELSE <<36, 100>>
    ELSE IF 9 * Budget * 100 >= 49 * 10 * size
         THEN <<9 * Budget, 10 * size>> ELSE <<49, 100>>

\* d2 is d times the square root of sq, rounded to the nearest whole pixel
ScaledTo(d, d2, sq) ==
    LET x == FloorMulDiv(4 * d * d, sq[1], sq[2])
    IN /\ x < (2 * d2 + 1) * (2 * d2 + 1)
       /\ d2 = 0 \/ (2 * d2 - 1) * (2 * d2 - 1) <= x

\* C19: in the general variant the dimensions change inside the loop only
\* after an over-budget attempt whose quality is at or below the floor; such
\* a step leaves quality unchanged and multiplies width and height by one
\* factor that is below 1 and at least the dimension floor (0.7 general,
\* 0.6 mobile), rounding to the nearest pixel.
DimensionStep ==
    [][/\ (~Jpeg(fn) /\ pc = "loop" /\ (width' # width \/ height' # height)) =>
             /\ encodes' = encodes + 1 /\ blob'.n = encodes'
             /\ blob'.size > Budget /\ quality <= StatedFloor
       /\ (/\ encodes' = encodes + 1 /\ failures' = failures
           /\ blob'.size > Budget /\ quality <= StatedFloor) =>
             LET sq == StatedScaleSquared(blob'.size)
             IN /\ quality' = quality
                /\ sq[1] < sq[2]
                /\ 100 * sq[1] >= (IF Jpeg(fn) THEN 36 ELSE 49) * sq[2]
                /\ ScaledTo(width, width', sq)
                /\ ScaledTo(height, height', sq)]_vars

DimensionsCutToFloor ==
    /\ fn = ResizeFn /\ pc = "loop" /\ failures = 0 /\ encodes > 0
    /\ blob.size > Budget + 1 /\ prev.quality = StatedFloor
    /\ width < prev.width /\ height < prev.height

\* C20: when a dimension step brings width or height below the minimum the
\* loop stops at once: no encode is made at the reduced dimensions and the
\* blob returned is the one of the attempt before the reduction.
MinimumGuard ==
    /\ exitReason = "minimum" =>
          /\ pc \in {"exit", "returned"}
          /\ width < StatedMinWidth \/ height < StatedMinHeight
          /\ blob.n = encodes
          /\ blob.width = prev.width /\ blob.height = prev.height
          /\ pc = "returned" => result = blob
    /\ (/\ pc = "loop" /\ encodes > 0
        /\ (width < StatedMinWidth \/ height < StatedMinHeight)) =>
          (width = prev.width /\ height = prev.height)

StoppedAtMinimum ==
    /\ pc = "returned" /\ exitReason = "minimum" /\ fn = ResizeFn
    /\ width >= StatedMinWidth /\ height < StatedMinHeight
    /\ result.width >= StatedMinWidth /\ result.height >= StatedMinHeight

\* y is x * num / den rounded to the nearest integer (halves go up)
Nearest(x, num, den, y) ==
    /\ 2 * y * den <= 2 * x * num + den
    /\ 2 * x * num + den < 2 * (y + 1) * den

\* C17: calculateDimensions returns the source dimensions unchanged when
\* both are within the bounds, and otherwise both multiplied by
\* min(maxWidth/width, maxHeight/height) and rounded to the nearest pixel;
\* the result never exceeds min(width, maxWidth) x min(height, maxHeight);
\* 6000x4000 within 4096x4096 gives 4096x2731.
NeverUpscales ==
    dimsOut # NoDims =>
        LET w == dimsIn.width
            h == dimsIn.height
            mw == dimsIn.maxWidth
            mh == dimsIn.maxHeight
            ratio == IF mw * h <= mh * w THEN <<mw, w>> ELSE <<mh, h>>
        IN /\ (w <= mw /\ h <= mh) => dimsOut = [width |-> w, height |-> h]
           /\ (w > mw \/ h > mh) =>
                 /\ Nearest(w, ratio[1], ratio[2], dimsOut.width)
                 /\ Nearest(h, ratio[1], ratio[2], dimsOut.height)
           /\ dimsOut.width <= Min(w, mw)
           /\ dimsOut.height <= Min(h, mh)
           /\ (w = 6000 /\ h = 4000 /\ mw = 4096 /\ mh = 4096) =>
                 dimsOut = [width |-> 4096, height |-> 2731]

ScaledDownExample ==
    /\ dimsIn = [width |-> 6000, height |-> 4000, maxWidth |-> 4096, maxHeight |-> 4096]
    /\ dimsOut = [width |-> 4096, height |-> 2731]

\* C14: items are writable by admins only: no item is ever written by a
\* user whom no administrator marked isAdmin, whatever rule-permitted
\* operations that user performed before; every read of an item is allowed.
ItemsWritableByAdminsOnly ==
    /\ \A i \in ItemIds : items[i].exists => items[i].writer \in granted
    /\ lastOp.op = "items.read" => lastOp.allowed

QueriesOf(k) == {q \in queries : q.cb = k}

AdminGateState ==
    \A k \in DOMAIN adminCbs :
        LET cb == adminCbs[k]
            admin == /\ cb.user # NoUser
                     /\ cb.got.outcome = "found" /\ cb.got.isAdmin = "true"
        IN /\ cb.pc # "check" => (cb.isAdmin <=> admin)
           /\ QueriesOf(k) # {} => (cb.user # NoUser /\ cb.isAdmin)
           /\ (cb.pc = "done" /\ cb.user # NoUser /\ cb.isAdmin) =>
                 {q.coll : q \in QueriesOf(k)} = {"items", "requests"}
           /\ (cb.pc = "done" /\ ~(cb.user # NoUser /\ cb.isAdmin)) =>
                 QueriesOf(k) = {}

AdminGateStep ==
    \A k \in DOMAIN adminCbs :
        (/\ adminCbs[k].pc = "gate" /\ adminCbs'[k].pc = "done"
         /\ ~(adminCbs[k].user # NoUser /\ adminCbs[k].isAdmin)) =>
            (adminMessageHidden' = FALSE /\ queries' = queries)

\* C15: a run of the admin page's auth callback issues the items and
\* requests queries only if its user is not null and checkIsAdmin returned
\* true; otherwise it shows the admin-access message and issues no query;
\* checkIsAdmin returns true only for a signed-in uid whose users document
\* was read without error, exists and holds isAdmin = true (the boolean).
AdminGate == []AdminGateState /\ [][AdminGateStep]_vars

NonBooleanAdminDenied ==
    \E k \in DOMAIN adminCbs :
        /\ adminCbs[k].pc = "done" /\ adminCbs[k].got.isAdmin = "'true'"
        /\ adminCbs[k].got.outcome = "found"
        /\ ~adminMessageHidden /\ queries = {}

RequestIds(docs) == {d.id : d \in docs}

RequestsState ==
    \A d \in requestDocs :
        /\ d.status \in {"new", "contacted", "pending", "sold", "declined"}
        /\ d.userId \in Uids

RequestsStep ==
    /\ \A d \in requestDocs' :
          d.id \notin RequestIds(requestDocs) =>
             /\ d.status = "new"
             /\ d.userId = authUser /\ authUser # NoUser
             /\ currentUser = d.userId
    /\ (authUser = NoUser \/ currentUser = NoUser) =>
          RequestIds(requestDocs') = RequestIds(requestDocs)
    /\ \A d \in requestDocs, e \in requestDocs' :
          d.id = e.id =>
             /\ e.userId = d.userId
             /\ e.status # d.status =>
                   e.status \in {"new", "contacted", "pending", "sold", "declined"}

\* C16: every request document the storefront writes is created with status
\* 'new' and userId = the uid signed in at submission; nothing is written
\* while no user is signed in, even with a form built before the sign-out;
\* afterwards a status change only sets one of new, contacted, pending,
\* sold, declined.
RequestsWellFormed == []RequestsState /\ [][RequestsStep]_vars

SignedOutSubmitWritesNothing ==
    /\ formBuilt /\ currentUser = NoUser /\ authUser = NoUser
    /\ lastOp.op = "requests.create TypeError"
    /\ \E d \in requestDocs : d.status = "sold"

\* C22: for positive source dimensions and positive bounds both dimensions
\* computed by calculateDimensions are at least 1, also for extreme aspect
\* ratios such as 10000x1 within 4096x4096.
DimensionsAtLeastOne ==
    (/\ dimsOut # NoDims
     /\ dimsIn.width >= 1 /\ dimsIn.height >= 1
     /\ dimsIn.maxWidth >= 1 /\ dimsIn.maxHeight >= 1) =>
        (dimsOut.width >= 1 /\ dimsOut.height >= 1)

\* C23: in forceConvertToJpeg the dimensions left by the width/height clamp
\* already hold width * height <= maxPixels on either platform and for any
\* config, so the pixel-count rescale leaves them as they are: the first
\* attempt is made at exactly the clamped dimensions.
PixelRescaleIdle ==
    (Jpeg(fn) /\ encodes = 1) =>
        LET clamped == calculateDimensions(file.width, file.height,
                           Min(settings.maxWidth, StatedCeiling.side),
                           Min(settings.maxHeight, StatedCeiling.side))
        IN /\ clamped.width * clamped.height <= StatedCeiling.pixels
           /\ prev.width = clamped.width /\ prev.height = clamped.height

ClampedAtDesktopCeiling ==
    /\ fn = ForceFn /\ ~isIOS /\ encodes = 1
    /\ file.width = 6000 /\ settings.maxWidth = 4096
    /\ prev.width = 4096 /\ prev.height = 2731

DrawState ==
    /\ (drawPc = "while" /\ halvings >= 1) => currentWidth > drawIn.targetWidth
    /\ drawPc = "done" =>
          /\ Len(drawn) = 1
          /\ drawn[1] = [width |-> drawIn.targetWidth, height |-> drawIn.targetHeight]
          /\ IF drawIn.useProgressiveResize /\ drawIn.imgWidth > 2 * drawIn.targetWidth
             THEN halvings >= 1 /\ currentWidth <= 2 * drawIn.targetWidth
             ELSE halvings = 0

\* C21: with progressive mode on and source width over twice the target
\* width, drawToCanvas makes at least one halving step, every intermediate
\* is wider than the target, the last one at most twice as wide, and one
\* final resize to the target follows; otherwise it makes a single resize;
\* the halving loop always terminates.
ProgressiveResize == []DrawState /\ <>(drawPc = "done")

\* C24: the item's image list currentImages never holds more than 8 URLs,
\* whatever the interleaving of selections, drops, upload completions,
\* upload failures and removals.
AtMostEightImages == Len(currentImages) <= 8

\* C25: isUploading is true whenever at least one image upload is in
\* flight, under any interleaving of overlapping upload batches, so the
\* item form's submit handler refuses and closeModal asks to confirm.
UploadingFlagged == uploads # {} => isUploading

\* C26: the URL an upload returns is appended only to the image list of the
\* modal session in which the upload was started, and is saved with no
\* other item.
UploadsStayInSession ==
    /\ \A k \in DOMAIN currentImages :
          \/ currentImages[k].session \in {0, session}
          \/ currentImages[k].item = Slot(editingItem)
    /\ \A i \in DOMAIN savedImages : \A k \in DOMAIN savedImages[i] :
          savedImages[i][k].item = i

Urls(images) == {images[k] : k \in DOMAIN images}

\* C27: a preview tile's remove button removes exactly the URL the tile
\* displays and no other, after any interleaving of uploads completing and
\* earlier removals; stated for the modal's first opening, so that no
\* upload of an earlier opening is involved.
RemovesDisplayedUrl ==
    [][(session = 1 /\ clicks'.n = clicks.n + 1) =>
          Urls(currentImages') = Urls(currentImages) \ {clicks'.url}]_vars

\* C28: on the storefront, once every pending auth-state callback and its
\* admin check have completed, in whatever order the checks resolve, isAdmin
\* is true only if the signed-in user is an admin; in particular it is false
\* whenever currentUser is null.
AdminLinkReflectsUser ==
    (pendingAuth = <<>> /\ checks = {} /\ mainIsAdmin) =>
        /\ currentUser # NoUser
        /\ isAdmin(currentUser, userDocs)

AdminPanelWrites == {"items.write", "requests.update", "requests.delete"}

\* C29: every write the admin panel issues for an admin user (item create,
\* update and delete; request status change; request delete) is permitted by
\* the documented rules, also on requests that other users created.
AdminWritesPermitted ==
    (lastOp.op \in AdminPanelWrites /\ isAdmin(lastOp.auth, userDocs)) =>
        lastOp.allowed

ViewerLength == Len(fullscreenViewerImages)

ViewerState ==
    IF viewerHidden
    THEN fullscreenViewerImages = <<>> /\ fullscreenViewerCurrentIndex = 0
    ELSE /\ ViewerLength >= 1
         /\ fullscreenViewerCurrentIndex \in 0..(ViewerLength - 1)

ViewerStep ==
    /\ (viewerMoves' = viewerMoves + 1 /\ viewerLast'.move = "next"
        /\ fullscreenViewerCurrentIndex = ViewerLength - 1) =>
          fullscreenViewerCurrentIndex' = fullscreenViewerCurrentIndex
    /\ (viewerMoves' = viewerMoves + 1 /\ viewerLast'.move = "prev"
        /\ fullscreenViewerCurrentIndex = 0) =>
          fullscreenViewerCurrentIndex' = fullscreenViewerCurrentIndex
    /\ (~viewerHidden /\ viewerHidden') =>
          fullscreenViewerImages' = <<>> /\ fullscreenViewerCurrentIndex' = 0

\* C30: while the fullscreen viewer is open on a non-empty list with a valid
\* start index the current index stays within 0..length-1 after any next and
\* previous actions, next at the last image and previous at the first leave
\* it unchanged, and closing resets the index to 0 and the list to empty.
ViewerIndexInBounds == []ViewerState /\ [][ViewerStep]_vars

NextAtLastImageStays ==
    /\ ~viewerHidden /\ ViewerLength = 3
    /\ viewerMoves = 3 /\ viewerLast = [move |-> "next", from |-> 2]
    /\ fullscreenViewerCurrentIndex = 2

=============================================================================
